---- MODULE Spec2Model ----
(***************************************************************************)
(* Model of train-generator/main.py: the trajectory construction of        *)
(* get_train_movement and the per-train calling loop of its callers        *)
(* (run_figures / run_activity), which share one Network and one Route     *)
(* between successive calls.                                               *)
(*                                                                         *)
(* Numbers.  Minutes are Python floats; they are modelled as exact         *)
(* rationals [n, d] in lowest terms with d > 0, so that the division by    *)
(* the velocity and the multiplication by 60.0 are computed rather than    *)
(* assumed.  Floating-point rounding is not modelled.  Kilometres and      *)
(* velocities are drawn from integers.                                     *)
(***************************************************************************)
EXTENDS Integers, Sequences, FiniteSets, TLC

VARIABLES
    network,           \* the Network the caller built (shared by all calls)
    timetable,         \* the Timetable argument of the current call
    velocity,          \* the velocity argument of the current call
    pc,                \* "call" | "loop" | "done" | "raised"
    i,                 \* number of completed iterations of the for loop
    current_time,      \* local current_time
    current_location,  \* local current_location
    movement,          \* local movement (the list being built)
    result,            \* what the caller received from the last call
    raised,            \* the exception that propagated, or "none"
    movements          \* the caller's collected movements, in call order

vars == <<network, timetable, velocity, pc, i, current_time,
          current_location, movement, result, raised, movements>>

---------------------------------------------------------------------------
(* Bounds of the model *)

MaxStops == 2

MaxTrains == 2

---------------------------------------------------------------------------
(* Minutes = float, modelled as exact rationals *)

Abs(x) == IF x < 0 THEN -x ELSE x

RECURSIVE GCD(_, _)
GCD(a, b) == IF b = 0 THEN a ELSE GCD(b, a % b)

Norm(n, d) ==
    LET g == GCD(Abs(n), Abs(d))
        s == IF d < 0 THEN -1 ELSE 1
    IN  [n |-> (s * n) \div g, d |-> (s * d) \div g]

Rat(k) == [n |-> k, d |-> 1]

FAdd(a, b) == Norm(a.n * b.d + b.n * a.d, a.d * b.d)

FMul(a, b) == Norm(a.n * b.n, a.d * b.d)

FDiv(a, b) == Norm(a.n * b.d, a.d * b.n)

FLeq(a, b) == a.n * b.d <= b.n * a.d

---------------------------------------------------------------------------
(* Data model *)

Stop(name, dwell_time) == [name |-> name, dwell_time |-> dwell_time]

Timetable(stops, departure_station, departure_time) ==
    [stops |-> stops, departure_station |-> departure_station,
     departure_time |-> departure_time]

Position(time, location) == [time |-> time, location |-> location]

NoTrajectory == << >>

\* network[name] raises KeyError when name is absent
KeyError == "KeyError"

\* x / 0 raises ZeroDivisionError
ZeroDivisionError == "ZeroDivisionError"

---------------------------------------------------------------------------
(* Inputs.  Station "X" is in no Network.  Dwell times are >= 0, as every  *)
(* Stop the callers build; velocities include 0 and a negative value,     *)
(* which get_train_movement does not reject.  The second Network is not   *)
(* ordered by label, so Routes run in both directions.                    *)

StationNames == {"A", "B", "C", "X"}

NetworkModels ==
    { [s \in {"A", "B", "C"} |->
          CASE s = "A" -> 0 [] s = "B" -> 5 [] s = "C" -> 10],
      [s \in {"A", "B", "C"} |->
          CASE s = "A" -> 0 [] s = "B" -> 7 [] s = "C" -> 3] }

DwellTimes == {Rat(0), Rat(2)}

DepartureTimes == {Rat(0), Norm(5, 2)}

Velocities == {-60, 0, 50, 60}

Stops == {Stop(s, d) : s \in StationNames, d \in DwellTimes}

Routes == UNION {[1..k -> Stops] : k \in 0..MaxStops}

---------------------------------------------------------------------------
(* get_train_movement *)

Lookup_Default(net, name) ==
    [ok |-> TRUE, value |-> IF name \in DOMAIN net THEN net[name] ELSE 0]

Lookup(net, name) ==
    IF name \in DOMAIN net
    THEN [ok |-> TRUE, value |-> net[name]]
    ELSE [ok |-> FALSE, value |-> 0]

InitialSample_AtZero(tt, net) ==
    Position(Rat(0), Lookup(net, tt.departure_station).value)

InitialSample(tt, net) ==
    Position(tt.departure_time, Lookup(net, tt.departure_station).value)

DestinationStop_Reversed(stops, k) == stops[Len(stops) - k]

DestinationStop(stops, k) == stops[k + 1]

JourneyDistance_Signed(destination_location, location) ==
    destination_location - location

JourneyDistance(destination_location, location) ==
    Abs(destination_location - location)

ArrivalTime_Hours(time, journey_distance, v) ==
    FAdd(time, FDiv(Rat(journey_distance), Rat(v)))

ArrivalTime(time, journey_distance, v) ==
    FAdd(time, FMul(FDiv(Rat(journey_distance), Rat(v)), Rat(60)))

AfterDwell_NoDwell(time, destination_dwell) == time

AfterDwell(time, destination_dwell) == FAdd(time, destination_dwell)

AppendStop_NoDuplicate(mv, arrival_time, destination_location, destination_dwell) ==
    IF destination_dwell = Rat(0)
    THEN Append(mv, Position(arrival_time, destination_location))
    ELSE Append(Append(mv, Position(arrival_time, destination_location)),
                Position(AfterDwell(arrival_time, destination_dwell),
                         destination_location))

AppendStop(mv, arrival_time, destination_location, destination_dwell) ==
    Append(Append(mv, Position(arrival_time, destination_location)),
           Position(AfterDwell(arrival_time, destination_dwell),
                    destination_location))

Raise(e) ==
    /\ pc' = "raised"
    /\ raised' = e
    /\ UNCHANGED <<i, current_time, current_location, movement, result,
                   movements>>

Enter ==
    /\ pc = "call"
    /\ IF ~Lookup(network, timetable.departure_station).ok
       THEN Raise(KeyError)
       ELSE /\ current_time' = timetable.departure_time
            /\ current_location' =
                   Lookup(network, timetable.departure_station).value
            /\ movement' = <<InitialSample(timetable, network)>>
            /\ i' = 0
            /\ pc' = "loop"
            /\ UNCHANGED <<result, raised, movements>>
    /\ UNCHANGED <<network, timetable, velocity>>

IterateBody ==
    /\ pc = "loop"
    /\ i < Len(timetable.stops)
    /\ LET destination_stop == DestinationStop(timetable.stops, i)
           destination == Lookup(network, destination_stop.name)
           journey_distance ==
               JourneyDistance(destination.value, current_location)
           arrival_time ==
               ArrivalTime(current_time, journey_distance, velocity)
       IN  IF ~destination.ok
           THEN Raise(KeyError)
           ELSE IF velocity = 0
           THEN Raise(ZeroDivisionError)
           ELSE /\ current_time' =
                       AfterDwell(arrival_time, destination_stop.dwell_time)
                /\ current_location' = destination.value
                /\ movement' = AppendStop(movement, arrival_time,
                                          destination.value,
                                          destination_stop.dwell_time)
                /\ i' = i + 1
                /\ UNCHANGED <<pc, result, raised, movements>>

Iterate_ConsumesDwell ==
    /\ IterateBody
    /\ timetable' = IF pc' = "raised" THEN timetable
                    ELSE [timetable EXCEPT !.stops[i + 1].dwell_time = Rat(0)]
    /\ UNCHANGED <<network, velocity>>

Iterate ==
    /\ IterateBody
    /\ UNCHANGED <<network, timetable, velocity>>

Return ==
    /\ pc = "loop"
    /\ i = Len(timetable.stops)
    /\ result' = movement
    /\ movements' = Append(movements, movement)
    /\ pc' = "done"
    /\ UNCHANGED <<network, timetable, velocity, i, current_time,
                   current_location, movement, raised>>

---------------------------------------------------------------------------
(* The caller's loop over trains: the next Timetable reuses the same Route *)
(* list and the same Network, with another departure time.                *)

NextTrain ==
    /\ pc = "done"
    /\ Len(movements) < MaxTrains
    /\ \E departure_time \in DepartureTimes :
           timetable' = Timetable(timetable.stops,
                                  timetable.departure_station,
                                  departure_time)
    /\ pc' = "call"
    /\ i' = 0
    /\ current_time' = Rat(0)
    /\ current_location' = 0
    /\ movement' = << >>
    /\ result' = NoTrajectory
    /\ UNCHANGED <<network, velocity, raised, movements>>

Init ==
    /\ network \in NetworkModels
    /\ \E stops \in Routes, departure_station \in StationNames,
          departure_time \in DepartureTimes :
           timetable = Timetable(stops, departure_station, departure_time)
    /\ velocity \in Velocities
    /\ pc = "call"
    /\ i = 0
    /\ current_time = Rat(0)
    /\ current_location = 0
    /\ movement = << >>
    /\ result = NoTrajectory
    /\ raised = "none"
    /\ movements = << >>

Next == Enter \/ Iterate \/ Return \/ NextTrain

Spec == Init /\ [][Next]_vars

---------------------------------------------------------------------------
(* Names used by the properties *)

\* The spec's names for the two failures; in the code they are the
\* exceptions Python itself raises at the lookup and at the division.
UnknownStationError == KeyError

InvalidVelocityError == ZeroDivisionError

Route == timetable.stops

Known(name) == name \in DOMAIN network

AnyUnknown ==
    \/ ~Known(timetable.departure_station)
    \/ \E k \in 1..Len(Route) : ~Known(Route[k].name)

Finished == pc \in {"done", "raised"}

\* a - b, compared with c, on rationals, by cross-multiplication
DiffEquals(a, b, c) ==
    (a.n * b.d - b.n * a.d) * c.d = c.n * a.d * b.d

---------------------------------------------------------------------------
(* C1: every returned Trajectory has non-decreasing sample times, for all  *)
(* Timetables, velocities and Networks the engine accepts.                 *)
C1_TimesNonDecreasing ==
    pc = "done" =>
        \A k \in 1..(Len(result) - 1) :
            FLeq(result[k].time, result[k + 1].time)

(* C2: a call with velocity <= 0 fails with InvalidVelocityError and       *)
(* returns no Trajectory.  Where a station is unknown as well, the lookup  *)
(* failure is admitted in its place.                                       *)
C2_NonPositiveVelocityFails ==
    (Finished /\ velocity <= 0) =>
        /\ pc = "raised"
        /\ result = NoTrajectory
        /\ \/ raised = InvalidVelocityError
           \/ AnyUnknown /\ raised = UnknownStationError

(* C3 as stated: an unknown departure station or Stop, at any position,    *)
(* makes the call fail with UnknownStationError and return no Trajectory.  *)
C3_UnknownStationError_Original ==
    (Finished /\ AnyUnknown) =>
        /\ pc = "raised"
        /\ raised = UnknownStationError
        /\ result = NoTrajectory

(* C3 amended: an unknown departure station or Stop makes the call fail    *)
(* and the caller receives no Trajectory and collects none; the failure is *)
(* the lookup failure, except that with velocity 0, a known departure      *)
(* station and a known first Stop the division by zero of the first leg    *)
(* is raised before any unknown Stop is looked up.                         *)
C3_UnknownStationAborts ==
    AnyUnknown =>
        /\ pc # "done"
        /\ result = NoTrajectory
        /\ movements = << >>
        /\ pc = "raised" =>
               raised = IF /\ velocity = 0
                           /\ Known(timetable.departure_station)
                           /\ Len(Route) >= 1
                           /\ Known(Route[1].name)
                        THEN ZeroDivisionError
                        ELSE UnknownStationError

C3_Witness ==
    /\ pc = "raised"
    /\ raised = UnknownStationError
    /\ Len(movement) >= 3
    /\ result = NoTrajectory

(* C4: a returned Trajectory for a Route of length R has exactly 1 + 2R    *)
(* samples; an empty Route yields the initial sample alone.                *)
C4_SampleCount ==
    pc = "done" =>
        /\ Len(result) = 1 + 2 * Len(Route)
        /\ Len(Route) = 0 => result = <<InitialSample(timetable, network)>>

C4_Witness ==
    /\ pc = "done"
    /\ Len(Route) = 2
    /\ Len(result) = 5
    /\ \E k \in 1..2 : Route[k].dwell_time = Rat(0)

(* C5: the first sample of a returned Trajectory is (departure time,       *)
(* coordinate of the departure station), whether or not the departure      *)
(* station is in the Route.                                                *)
C5_FirstSample ==
    pc = "done" =>
        /\ result[1].time = timetable.departure_time
        /\ result[1].location = network[timetable.departure_station]

C5_Witness ==
    /\ pc = "done"
    /\ Len(Route) >= 1
    /\ \A k \in 1..Len(Route) : Route[k].name # timetable.departure_station
    /\ timetable.departure_time # Rat(0)
    /\ network[timetable.departure_station] # 0

(* C6: for every leg k, arrival time minus the time of the preceding       *)
(* sample is |coordinate(stop k) - previous location| / velocity * 60,     *)
(* whatever the direction; a zero-length leg takes no time, so the arrival *)
(* sample coincides with the preceding one.                                *)
C6_TravelTime ==
    pc = "done" =>
        \A k \in 1..Len(Route) :
            LET before == result[2 * k - 1]
                arrival == result[2 * k]
                to == network[Route[k].name]
                from == before.location
                distance == IF to >= from THEN to - from ELSE from - to
            IN  /\ DiffEquals(arrival.time, before.time,
                              [n |-> distance * 60, d |-> velocity])
                /\ to = from => arrival = before

C6_Witness ==
    /\ pc = "done"
    /\ \E k \in 1..Len(Route) :
           /\ network[Route[k].name] < result[2 * k - 1].location
           /\ result[2 * k].time.d > 1
    /\ \E k \in 1..Len(Route) :
           network[Route[k].name] = result[2 * k - 1].location

(* C7: the post-dwell sample of every Stop has the arrival sample's        *)
(* location and the arrival time plus the Stop's dwell; a dwell of 0, at   *)
(* the final stop too, leaves two identical consecutive samples.           *)
C7_PostDwellSample ==
    pc = "done" =>
        \A k \in 1..Len(Route) :
            LET arrival == result[2 * k]
                ready == result[2 * k + 1]
            IN  /\ ready.location = arrival.location
                /\ DiffEquals(ready.time, arrival.time, Route[k].dwell_time)
                /\ Route[k].dwell_time = Rat(0) => ready = arrival

C7_Witness ==
    /\ pc = "done"
    /\ Len(Route) = 2
    /\ Route[1].dwell_time = Rat(2)
    /\ Route[2].dwell_time = Rat(0)
    /\ result[5] = result[4]
    /\ result[3] # result[2]

(* C8: network {A:0, B:5, C:10}, velocity 60, Route [Stop(B, 2),           *)
(* Stop(C, 0)], departure (A, 0) gives (0,0), (5,5), (7,5), (12,10),       *)
(* (12,10).                                                                *)
C8_Scenario ==
    /\ network = [s \in {"A", "B", "C"} |->
                     CASE s = "A" -> 0 [] s = "B" -> 5 [] s = "C" -> 10]
    /\ velocity = 60
    /\ timetable = Timetable(<<Stop("B", Rat(2)), Stop("C", Rat(0))>>,
                             "A", Rat(0))

C8_ConcreteScenario ==
    (C8_Scenario /\ pc = "done") =>
        result = << Position(Rat(0), 0), Position(Rat(5), 5),
                    Position(Rat(7), 5), Position(Rat(12), 10),
                    Position(Rat(12), 10) >>

C8_Witness == C8_Scenario /\ pc = "done" /\ Len(result) = 5

(* C9: get_train_movement leaves the Timetable, its Route and Stops, the   *)
(* Network and the velocity as they were, over any sequence of calls that  *)
(* share the Route and the Network; so the Trajectories collected for two  *)
(* trains differ by their departure times alone.                           *)
Independent ==
    \A j, k \in 1..Len(movements) :
        /\ Len(movements[j]) = Len(movements[k])
        /\ \A m \in 1..Len(movements[j]) :
               /\ movements[j][m].location = movements[k][m].location
               /\ FAdd(movements[j][m].time, movements[k][1].time)
                      = FAdd(movements[k][m].time, movements[j][1].time)

C9_InputsUnchanged ==
    [][ /\ network' = network
        /\ velocity' = velocity
        /\ timetable'.stops = timetable.stops
        /\ timetable'.departure_station = timetable.departure_station
        /\ pc # "done" => timetable' = timetable
        /\ Independent' ]_vars

C9_Witness ==
    /\ pc = "done"
    /\ Len(movements) = 2
    /\ Len(movements[2]) >= 5
    /\ movements[1] # movements[2]

(* C10: the stops are visited in Route order, none skipped: samples 2k-1   *)
(* and 2k (counting the initial sample as 0) are at the coordinate of the  *)
(* k-th Stop, and every sample is at the departure station or at a stop.   *)
C10_StopsInOrder ==
    pc = "done" =>
        /\ \A k \in 1..Len(Route) :
               /\ result[2 * k].location = network[Route[k].name]
               /\ result[2 * k + 1].location = network[Route[k].name]
        /\ \A m \in 1..Len(result) :
               \/ result[m].location = network[timetable.departure_station]
               \/ \E k \in 1..Len(Route) :
                      result[m].location = network[Route[k].name]

C10_Witness ==
    /\ pc = "done"
    /\ Len(Route) = 2
    /\ network[Route[1].name] > network[Route[2].name]
    /\ network[Route[2].name] > network[timetable.departure_station]

====
